---- MODULE Spec2Model ----
(***************************************************************************)
(* searoute-js: snapping two points onto the maritime network (marnet),   *)
(* asking the path finder for a path between the snapped points and       *)
(* assembling the measured LineString.                                     *)
(*                                                                         *)
(* Coordinates are pairs <<lon, lat>> on a small integer grid; a point     *)
(* Feature wrapped around a pair c is the one-element tuple <<c>>, the     *)
(* empty array is <<>>.  The turf                                          *)
(* distance routines are modelled by a grid (taxicab) metric reported in   *)
(* kilometres; lengths are whole numbers of the unit asked for.   *)
(* JavaScript null is <<>> for a nullable number or coordinate, and a      *)
(* record [kind |-> "null"] for a nullable object.                         *)
(***************************************************************************)
EXTENDS Integers, Sequences, FiniteSets

VARIABLES
    marnet,             \* module-level network (line 8)
    pc,                 \* position inside searoute
    origin,             \* argument origin
    destination,        \* argument destination
    unitsArg,           \* argument units as passed ("omitted" when absent)
    units,              \* parameter units after the default is applied
    snappedOrigin,      \* let snappedOrigin (line 14)
    snappedDestination, \* let snappedDestination (line 15)
    route,              \* let route (line 17)
    lineString,         \* let lineString (line 24)
    result,             \* what the call gave back to its caller
    scan,               \* the var-declared locals of snapToNetwork's last activation
    calls,              \* how many times searoute has been called in this process
    frames              \* per caller, the activation of searoute made for its request

vars == <<marnet, pc, origin, destination, unitsArg, units, snappedOrigin,
          snappedDestination, route, lineString, result, scan, calls, frames>>

\* The callers whose requests arrive at the process in any order.
Callers == {"a", "b"}

\* Bounds of the grid the input points are drawn from.
MaxX == 2
MaxY == 2

\* How many calls of searoute one behaviour holds.
MaxCalls == 2

\* var distance = 30000 (line 40): the search radius, in kilometres.
Radius == 30000

Points == {<<x, y>> : x \in 0..MaxX, y \in 0..MaxY}

\* The units a caller may pass: the five documented ones, none at all, and
\* one the length routine does not know.
UnitsArgs == {"omitted", "nm", "kilometers", "miles", "degrees", "radians", "furlongs"}

Null == <<>>

\* turfHelpers.point(c): the point Feature whose coordinates are c.
PointFeature(c) == <<c>>

\* What a caller may pass as origin or destination: a bare coordinate pair,
\* a point Feature around one, or an array without any number in it.
EmptyArray == <<>>
Endpoints == Points \cup {PointFeature(c) : c \in Points} \cup {EmptyArray}

\* The units passed by the callers that try every form of endpoint: none at
\* all, and one the length routine does not know.
EndpointUnits == {"omitted", "furlongs"}

\* Three networks, one of which is loaded when the module is required.
\* NetA is connected and has a three-vertex feature; NetB has two
\* disconnected features, one of them a long segment with grid points
\* inside it; NetC has a long segment passing through the first vertex of
\* another feature.
NetA == << << <<0, 0>>, <<1, 0>>, <<2, 0>> >>, << <<2, 0>>, <<2, 1>> >> >>
NetB == << << <<0, 0>>, <<2, 0>> >>, << <<0, 2>>, <<1, 2>> >> >>
NetC == << << <<0, 1>>, <<2, 1>> >>, << <<1, 1>>, <<1, 2>> >> >>
Networks == {NetA, NetB, NetC}

----------------------------------------------------------------------------
(* Arithmetic helpers *)

Abs(n) == IF n < 0 THEN -n ELSE n
Min(S) == CHOOSE m \in S : \A n \in S : m <= n
Lo(a, b) == IF a <= b THEN a ELSE b
Hi(a, b) == IF a <= b THEN b ELSE a

\* Grid steps between two coordinates.
Steps(a, b) == Abs(a[1] - b[1]) + Abs(a[2] - b[2])

\* The grid points of the closed segment a-b.
SegmentPoints(a, b) ==
    {q \in {<<x, y>> : x \in Lo(a[1], b[1])..Hi(a[1], b[1]),
                       y \in Lo(a[2], b[2])..Hi(a[2], b[2])} :
        (b[1] - a[1]) * (q[2] - a[2]) = (b[2] - a[2]) * (q[1] - a[1])}

----------------------------------------------------------------------------
(* The turf measurement routines *)

\* Variant of getCoord: the coordinates of a point Feature are read as
\* <<lat, lon>>.
getCoordSwapped(p) == IF Len(p) = 1 THEN <<p[1][2], p[1][1]>> ELSE p

\* getCoord, through which the turf routines read a point argument (lines 43
\* and 55): the pair itself, or the coordinates of the point Feature.
getCoord(p) == IF Len(p) = 1 THEN p[1] ELSE p

\* pointToLineDistance makes a point Feature of a bare array (line 43), and
\* an array of fewer than two numbers is rejected there with an Error.
Rejected(p) == Len(p) = 0
PositionError == [kind |-> "throw", error |-> "coordinates must be at least 2 numbers long"]

\* rhumbDistance(point, currentCoord) (line 55): point-to-point distance in
\* kilometres; 0 exactly when the two coordinates coincide.
rhumbDistance(point, coord) == 20000 * Steps(getCoord(point), getCoord(coord))

\* The path finder's edge weight and the length routine's segment measure:
\* the distance between two coordinates, in kilometres.
kilometres(a, b) == 20000 * Steps(a, b)

\* pointToLineDistance(point, feature, {units: 'kilometers'}) (line 43): the
\* smallest distance from the point to any point of the polyline.
pointToLineDistance(point, feature) ==
    Min(UNION {{20000 * Steps(getCoord(point), q) : q \in SegmentPoints(feature[j], feature[j + 1])} :
                 j \in 1..(Len(feature) - 1)})

----------------------------------------------------------------------------
(* snapToNetwork (lines 37-67) *)

\* Variant of ScanInit: the two trackers live outside the function and keep
\* what the previous activation left in them.
ScanInitStale(stale) == stale

\* var nearestLineIndex = 0, distance = 30000 (lines 39-40): each activation
\* starts from these values, whatever an earlier activation left behind.
ScanInit(stale) == [stale EXCEPT !.nearestLineIndex = 0, !.distance = Radius]

\* Variant of visitFeature: a feature as near as the nearest so far is taken.
visitFeatureLast(acc, point, feature, ftIndex) ==
    LET dist == pointToLineDistance(point, feature)
    IN  IF dist <= acc.distance
        THEN [acc EXCEPT !.distance = dist, !.nearestLineIndex = ftIndex]
        ELSE acc

\* The featureEach callback (lines 42-48); ftIndex counts from 0.
visitFeature(acc, point, feature, ftIndex) ==
    LET dist == pointToLineDistance(point, feature)
    IN  IF dist < acc.distance
        THEN [acc EXCEPT !.distance = dist, !.nearestLineIndex = ftIndex]
        ELSE acc

RECURSIVE featureEach(_, _, _, _)
featureEach(net, point, i, acc) ==
    IF i > Len(net) THEN acc
    ELSE featureEach(net, point, i + 1, visitFeature(acc, point, net[i], i - 1))

\* var nearestVertexDist = null, nearestCoord = null (lines 50-51).
VertexInit(acc) == [acc EXCEPT !.nearestVertexDist = Null, !.nearestCoord = Null]

\* !nearestVertexDist (line 57): true of null and of the number 0.
Falsy(x) == x = Null \/ x = <<0>>

\* Variant of visitCoord: the callback keeps the point being snapped instead
\* of the vertex it is looking at.
visitCoordRaw(acc, point, currentCoord) ==
    LET distToVertex == rhumbDistance(point, currentCoord)
        taken == [acc EXCEPT !.nearestVertexDist = <<distToVertex>>,
                             !.nearestCoord = point]
    IN  IF Falsy(acc.nearestVertexDist) THEN taken
        ELSE IF distToVertex < acc.nearestVertexDist[1] THEN taken
        ELSE acc

\* The coordEach callback (lines 53-64).
visitCoord(acc, point, currentCoord) ==
    LET distToVertex == rhumbDistance(point, currentCoord)
        taken == [acc EXCEPT !.nearestVertexDist = <<distToVertex>>,
                             !.nearestCoord = currentCoord]
    IN  IF Falsy(acc.nearestVertexDist) THEN taken
        ELSE IF distToVertex < acc.nearestVertexDist[1] THEN taken
        ELSE acc

RECURSIVE coordEach(_, _, _, _)
coordEach(feature, point, j, acc) ==
    IF j > Len(feature) THEN acc
    ELSE coordEach(feature, point, j + 1, visitCoord(acc, point, feature[j]))

\* The locals of snapToNetwork when it returns.
snapLocals(net, point, stale) ==
    LET phase1 == featureEach(net, point, 1, ScanInit(stale))
    IN  coordEach(net[phase1.nearestLineIndex + 1], point, 1, VertexInit(phase1))

\* return turfHelpers.point(nearestCoord) (line 66).
snapToNetwork(net, point, stale) == snapLocals(net, point, stale).nearestCoord

\* Variant of afterScan: the scan moves the first feature to the end.
afterScanRotated(net) == Tail(net) \o <<Head(net)>>

\* The network after featureEach and coordEach have gone over it (lines
\* 42-64): the callbacks read the features and coordinates and assign only
\* to snapToNetwork's own locals.
afterScan(net) == net

\* The locals before snapToNetwork has ever run.
FreshScan ==
    [nearestLineIndex |-> 0, distance |-> Radius,
     nearestVertexDist |-> Null, nearestCoord |-> Null]

----------------------------------------------------------------------------
(* routefinder.findPath (lines 7-9, 17): shortest path over the graph whose
   vertices are the features' coordinates and whose edges join consecutive
   coordinates of a feature.  A path runs from the start coordinate to the
   finish coordinate inclusive; start = finish gives the one-vertex path;
   null when either end is not a vertex or no path joins them. *)

NoPath == [kind |-> "null"]

Vertices(net) == UNION {{net[i][j] : j \in 1..Len(net[i])} : i \in 1..Len(net)}

Edge(net, a, b) ==
    /\ a # b
    /\ \E i \in 1..Len(net) : \E j \in 1..(Len(net[i]) - 1) :
          {net[i][j], net[i][j + 1]} = {a, b}

\* One round of relaxation; a negative cost marks a vertex not reached yet.
RECURSIVE Relax(_, _, _)
Relax(net, cost, n) ==
    IF n = 0 THEN cost
    ELSE Relax(net,
               [v \in DOMAIN cost |->
                   LET known == (IF cost[v] >= 0 THEN {cost[v]} ELSE {}) \cup
                                {cost[w] + kilometres(v, w) :
                                   w \in {w \in DOMAIN cost : Edge(net, v, w) /\ cost[w] >= 0}}
                   IN  IF known = {} THEN 0 - 1 ELSE Min(known)],
               n - 1)

\* Cost of the cheapest path from every vertex to finish.
Costs(net, finish) ==
    Relax(net, [v \in Vertices(net) |-> IF v = finish THEN 0 ELSE 0 - 1],
          Cardinality(Vertices(net)))

RECURSIVE Walk(_, _, _, _)
Walk(net, cost, cur, finish) ==
    IF cur = finish THEN <<cur>>
    ELSE LET nxt == CHOOSE w \in DOMAIN cost :
                       /\ Edge(net, cur, w)
                       /\ cost[w] >= 0
                       /\ cost[w] + kilometres(cur, w) = cost[cur]
         IN  <<cur>> \o Walk(net, cost, nxt, finish)

findPath(net, a, b) ==
    IF a \notin Vertices(net) \/ b \notin Vertices(net) THEN NoPath
    ELSE LET cost == Costs(net, b)
         IN  IF cost[a] < 0 THEN NoPath
             ELSE [kind |-> "path", path |-> Walk(net, cost, a, b)]

----------------------------------------------------------------------------
(* Route assembly (lines 24-31) *)

\* Variant of lineStringOf: the line is simplified to its two end positions.
lineStringOfEnds(path) ==
    IF Len(path) < 2
    THEN [kind |-> "throw", error |-> "coordinates must be an array of two or more positions"]
    ELSE [kind |-> "Feature", coordinates |-> <<path[1], path[Len(path)]>>]

\* turfHelpers.lineString(route.path) (line 24): a LineString feature with
\* empty properties; fewer than two positions is rejected with an Error.
lineStringOf(path) ==
    IF Len(path) < 2
    THEN [kind |-> "throw", error |-> "coordinates must be an array of two or more positions"]
    ELSE [kind |-> "Feature", coordinates |-> path]

\* Units the length routine knows, with the number of thousandths of a unit
\* in one kilometre (1 km = 0.621371 mi = 0.539957 nautical miles
\* = 0.008993 degrees = 0.000157 radians), taken per 1000 km.
KnownUnits == {"kilometers", "miles", "degrees", "radians", "nauticalmiles"}
PerThousandKm(u) ==
    CASE u = "kilometers"    -> 1000000
      [] u = "miles"         -> 621371
      [] u = "nauticalmiles" -> 539957
      [] u = "degrees"       -> 8993
      [] u = "radians"       -> 157

\* Distance between two coordinates in unit u, in whole units.
distanceIn(a, b, u) == ((kilometres(a, b) \div 1000) * PerThousandKm(u)) \div 1000

RECURSIVE SumSegments(_, _, _)
SumSegments(coords, u, j) ==
    IF j >= Len(coords) THEN 0
    ELSE distanceIn(coords[j], coords[j + 1], u) + SumSegments(coords, u, j + 1)

\* Variant of length: the first segment is left out of the sum.
lengthFromSecond(coords, u) ==
    IF u \notin KnownUnits
    THEN [kind |-> "throw", error |-> "units is invalid"]
    ELSE [kind |-> "number", value |-> SumSegments(coords, u, 2)]

\* length(lineString, {units: u}) (lines 28-29): the sum of the segments'
\* distances in unit u; an unknown unit is rejected with an Error.
length(coords, u) ==
    IF u \notin KnownUnits
    THEN [kind |-> "throw", error |-> "units is invalid"]
    ELSE [kind |-> "number", value |-> SumSegments(coords, u, 1)]

\* Variant of TimesNmFactor: the factor cut to 1.15.
TimesNmFactorCut(n) == n + (n * 15) \div 100

\* * 1.15078 (line 28): n * 115078 / 100000, rounded down.
TimesNmFactor(n) == n + (n * 15078) \div 100000

\* lineString.properties.length (lines 27-29).
routeLength(coords, u) ==
    IF u = "nm"
    THEN LET l == length(coords, "miles")
         IN  IF l.kind = "throw" THEN l
             ELSE [kind |-> "number", value |-> TimesNmFactor(l.value)]
    ELSE length(coords, u)

\* Variant of DefaultUnits: the default is kilometres.
DefaultUnitsKm(u) == IF u = "omitted" THEN "kilometers" ELSE u

\* function searoute(origin, destination, units = 'nm') (line 11).
DefaultUnits(u) == IF u = "omitted" THEN "nm" ELSE u

\* route == null (line 19).
NoRoute(r) == r.kind = "null"

\* Variant of NullResult: an empty route of length 0 instead of null.
ZeroLengthRoute == [kind |-> "Feature", coordinates |-> <<>>, units |-> "nm", length |-> 0]

\* return null (line 21).
NullResult == [kind |-> "null"]
Pending == [kind |-> "none"]

\* lineString.properties.units = units (line 26).
withUnits(ls, u) == [kind |-> "Feature", coordinates |-> ls.coordinates, units |-> u]

\* Variant of measured: when length fails, the LineString is returned as
\* far as it got.
measuredPartial(ls, u) ==
    LET l == routeLength(ls.coordinates, u)
    IN  IF l.kind = "throw" THEN withUnits(ls, u)
        ELSE [kind |-> "Feature", coordinates |-> ls.coordinates,
              units |-> u, length |-> l.value]

\* Variant of rethrow: the Error is swallowed and null is returned.
swallow(err) == [kind |-> "null"]

\* catch (err) { throw err; } (lines 32-34): the caller gets the very Error
\* that was caught.
rethrow(err) == err

\* return lineString (lines 26-31), or the Error thrown on the way.
measured(ls, u) ==
    LET l == routeLength(ls.coordinates, u)
    IN  IF l.kind = "throw" THEN l
        ELSE [kind |-> "Feature", coordinates |-> ls.coordinates,
              units |-> u, length |-> l.value]

\* Variant of findPathArgs: the raw points are handed to the path finder.
findPathArgsRaw(o, d, so, sd) == <<o, d>>

\* The arguments of findPath (line 17).
findPathArgs(o, d, so, sd) == <<so, sd>>

\* The whole of searoute as one function of the network and the arguments,
\* run in a process where snapToNetwork has not run before.
searoute(net, o, d, uArg) ==
    LET u == DefaultUnits(uArg)
        so == snapToNetwork(net, o, FreshScan)
        sd == snapToNetwork(net, d, FreshScan)
        args == findPathArgs(o, d, so, sd)
        r == findPath(net, args[1], args[2])
        out == IF Rejected(o) \/ Rejected(d) THEN PositionError
               ELSE IF NoRoute(r) THEN NullResult
               ELSE LET ls == lineStringOf(r.path)
                    IN  IF ls.kind = "throw" THEN ls ELSE measured(ls, u)
    IN  IF out.kind = "throw" THEN rethrow(out) ELSE out

----------------------------------------------------------------------------
(* The state machine: one call of searoute at a time, step by step *)

\* An activation of searoute that has not been entered: no parameter and no
\* let-bound variable holds a value.
IdleFrame ==
    [pc |-> "idle", origin |-> Null, destination |-> Null, unitsArg |-> "omitted",
     units |-> "nm", snappedOrigin |-> Null, snappedDestination |-> Null,
     route |-> NoPath, lineString |-> Pending, result |-> Pending]

Init ==
    /\ marnet \in Networks
    /\ pc = "idle"
    /\ origin = Null
    /\ destination = Null
    /\ unitsArg = "omitted"
    /\ units = "nm"
    /\ snappedOrigin = Null
    /\ snappedDestination = Null
    /\ route = NoPath
    /\ lineString = Pending
    /\ result = Pending
    /\ scan = FreshScan
    /\ calls = 0
    /\ frames = [r \in Callers |-> IdleFrame]

\* Variant of FirstStep: the call goes to the path search at once.
FirstStepSearch == "findPath"

\* The first statement of the try block (line 14).
FirstStep == "snapOrigin"

\* A caller invokes searoute(o, d, u) (line 11).
Call(o, d, u) ==
    /\ pc = "idle"
    /\ calls < MaxCalls
    /\ calls' = calls + 1
    /\ pc' = FirstStep
    /\ origin' = o
    /\ destination' = d
    /\ unitsArg' = u
    /\ units' = DefaultUnits(u)
    /\ UNCHANGED <<frames, marnet, snappedOrigin, snappedDestination, route,
                   lineString, result, scan>>

\* let snappedOrigin = snapToNetwork(origin) (line 14); the Error thrown by
\* the first pointToLineDistance for a rejected point is rethrown (lines 32-34).
SnapOrigin ==
    /\ pc = "snapOrigin"
    /\ IF Rejected(origin)
       THEN /\ scan' = ScanInit(scan)
            /\ snappedOrigin' = snappedOrigin
            /\ result' = rethrow(PositionError)
            /\ pc' = "returned"
       ELSE /\ scan' = snapLocals(marnet, origin, scan)
            /\ snappedOrigin' = scan'.nearestCoord
            /\ result' = result
            /\ pc' = "snapDestination"
    /\ marnet' = afterScan(marnet)
    /\ UNCHANGED <<frames, origin, destination, unitsArg, units,
                   snappedDestination, route, lineString, calls>>

\* snappedDestination = snapToNetwork(destination) (line 15).
SnapDestination ==
    /\ pc = "snapDestination"
    /\ IF Rejected(destination)
       THEN /\ scan' = ScanInit(scan)
            /\ snappedDestination' = snappedDestination
            /\ result' = rethrow(PositionError)
            /\ pc' = "returned"
       ELSE /\ scan' = snapLocals(marnet, destination, scan)
            /\ snappedDestination' = scan'.nearestCoord
            /\ result' = result
            /\ pc' = "findPath"
    /\ marnet' = afterScan(marnet)
    /\ UNCHANGED <<frames, origin, destination, unitsArg, units,
                   snappedOrigin, route, lineString, calls>>

\* let route = routefinder.findPath(snappedOrigin, snappedDestination) (line 17).
FindPath ==
    /\ pc = "findPath"
    /\ LET args == findPathArgs(origin, destination, snappedOrigin, snappedDestination)
       IN  route' = findPath(marnet, args[1], args[2])
    /\ pc' = "checkRoute"
    /\ UNCHANGED <<frames, marnet, origin, destination, unitsArg, units, snappedOrigin,
                   snappedDestination, lineString, result, scan, calls>>

\* if (route == null) { ...; return null; } (lines 19-22).
ReturnNull ==
    /\ pc = "checkRoute"
    /\ NoRoute(route)
    /\ result' = NullResult
    /\ pc' = "returned"
    /\ UNCHANGED <<frames, marnet, origin, destination, unitsArg, units, snappedOrigin,
                   snappedDestination, route, lineString, scan, calls>>

\* let lineString = turfHelpers.lineString(route.path) (line 24); an Error
\* thrown here leaves searoute through catch (err) { throw err; } (lines 32-34).
BuildLineString ==
    /\ pc = "checkRoute"
    /\ ~NoRoute(route)
    /\ lineString' = lineStringOf(route.path)
    /\ IF lineString'.kind = "throw"
       THEN result' = rethrow(lineString') /\ pc' = "returned"
       ELSE result' = result /\ pc' = "measure"
    /\ UNCHANGED <<frames, marnet, origin, destination, unitsArg, units, snappedOrigin,
                   snappedDestination, route, scan, calls>>

\* properties.units, properties.length and return lineString (lines 26-31);
\* an Error thrown by length is rethrown (lines 32-34).
Measure ==
    /\ pc = "measure"
    /\ LET out == measured(lineString, units)
       IN  IF out.kind = "throw"
           THEN result' = rethrow(out) /\ lineString' = withUnits(lineString, units)
           ELSE result' = out /\ lineString' = out
    /\ pc' = "returned"
    /\ UNCHANGED <<frames, marnet, origin, destination, unitsArg, units, snappedOrigin,
                   snappedDestination, route, scan, calls>>

\* The caller has the outcome; the activation's parameters and let-bound
\* variables are gone.
Leave ==
    /\ pc = "returned"
    /\ pc' = "idle"
    /\ origin' = Null
    /\ destination' = Null
    /\ unitsArg' = "omitted"
    /\ units' = "nm"
    /\ snappedOrigin' = Null
    /\ snappedDestination' = Null
    /\ route' = NoPath
    /\ lineString' = Pending
    /\ result' = Pending
    /\ UNCHANGED <<frames, marnet, scan, calls>>

\* Some caller invokes searoute with some arguments.
Invoke ==
    /\ pc = "idle"
    /\ \E o \in Points, d \in Points, u \in UnitsArgs : Call(o, d, u)

Next ==
    \/ Invoke
    \/ SnapOrigin
    \/ SnapDestination
    \/ FindPath
    \/ ReturnNull
    \/ BuildLineString
    \/ Measure
    \/ Leave

Spec == Init /\ [][Next]_vars

\* Some caller invokes searoute with endpoints in any of the three forms.
InvokeEndpoints ==
    /\ pc = "idle"
    /\ \E o \in Endpoints, d \in Endpoints, u \in EndpointUnits : Call(o, d, u)

NextEndpoints ==
    \/ InvokeEndpoints
    \/ SnapOrigin
    \/ SnapDestination
    \/ FindPath
    \/ ReturnNull
    \/ BuildLineString
    \/ Measure
    \/ Leave

SpecEndpoints == Init /\ [][NextEndpoints]_vars

----------------------------------------------------------------------------
(* Requests of several callers in one process: each request has its own
   activation of searoute; the network, the call counter and the storage of
   snapToNetwork's locals are the process's. *)

\* Variant of Exclusive: a call may be entered while another one is under way.
Suspendable(r) == TRUE

\* The body of searoute is synchronous (lines 11-35: no await, no deferred
\* callback), so the one thread enters a call for caller r only when no
\* other caller's call is under way.
Exclusive(r) == \A q \in Callers \ {r} : frames[q].pc = "idle"

\* The variables of the single-caller machine, which the requests leave alone.
oneCaller == <<pc, origin, destination, unitsArg, units, snappedOrigin,
               snappedDestination, route, lineString, result>>

\* Caller r invokes searoute(o, d, u) (line 11).
RequestCall(r, o, d, u) ==
    /\ frames[r].pc = "idle"
    /\ Exclusive(r)
    /\ calls < MaxCalls
    /\ calls' = calls + 1
    /\ frames' = [frames EXCEPT ![r] =
                    [IdleFrame EXCEPT !.pc = FirstStep, !.origin = o, !.destination = d,
                                      !.unitsArg = u, !.units = DefaultUnits(u)]]
    /\ UNCHANGED <<marnet, scan, oneCaller>>

RequestInvoke ==
    \E r \in Callers :
        /\ frames[r].pc = "idle"
        /\ \E o \in Points, d \in Points, u \in EndpointUnits : RequestCall(r, o, d, u)

\* Line 14 in the activation of caller r.
RequestSnapOrigin ==
    \E r \in Callers :
        /\ frames[r].pc = "snapOrigin"
        /\ IF Rejected(frames[r].origin)
           THEN /\ scan' = ScanInit(scan)
                /\ frames' = [frames EXCEPT ![r].result = rethrow(PositionError),
                                            ![r].pc = "returned"]
           ELSE /\ scan' = snapLocals(marnet, frames[r].origin, scan)
                /\ frames' = [frames EXCEPT ![r].snappedOrigin = scan'.nearestCoord,
                                            ![r].pc = "snapDestination"]
        /\ marnet' = afterScan(marnet)
        /\ UNCHANGED <<calls, oneCaller>>

\* Line 15 in the activation of caller r.
RequestSnapDestination ==
    \E r \in Callers :
        /\ frames[r].pc = "snapDestination"
        /\ IF Rejected(frames[r].destination)
           THEN /\ scan' = ScanInit(scan)
                /\ frames' = [frames EXCEPT ![r].result = rethrow(PositionError),
                                            ![r].pc = "returned"]
           ELSE /\ scan' = snapLocals(marnet, frames[r].destination, scan)
                /\ frames' = [frames EXCEPT ![r].snappedDestination = scan'.nearestCoord,
                                            ![r].pc = "findPath"]
        /\ marnet' = afterScan(marnet)
        /\ UNCHANGED <<calls, oneCaller>>

\* Line 17 in the activation of caller r.
RequestFindPath ==
    \E r \in Callers :
        /\ frames[r].pc = "findPath"
        /\ LET f == frames[r]
               args == findPathArgs(f.origin, f.destination,
                                    f.snappedOrigin, f.snappedDestination)
           IN  frames' = [frames EXCEPT ![r].route = findPath(marnet, args[1], args[2]),
                                       ![r].pc = "checkRoute"]
        /\ UNCHANGED <<marnet, scan, calls, oneCaller>>

\* Lines 19-22 in the activation of caller r.
RequestReturnNull ==
    \E r \in Callers :
        /\ frames[r].pc = "checkRoute"
        /\ NoRoute(frames[r].route)
        /\ frames' = [frames EXCEPT ![r].result = NullResult, ![r].pc = "returned"]
        /\ UNCHANGED <<marnet, scan, calls, oneCaller>>

\* Line 24 in the activation of caller r.
RequestBuildLineString ==
    \E r \in Callers :
        /\ frames[r].pc = "checkRoute"
        /\ ~NoRoute(frames[r].route)
        /\ LET ls == lineStringOf(frames[r].route.path)
           IN  frames' = IF ls.kind = "throw"
                         THEN [frames EXCEPT ![r].lineString = ls,
                                             ![r].result = rethrow(ls),
                                             ![r].pc = "returned"]
                         ELSE [frames EXCEPT ![r].lineString = ls, ![r].pc = "measure"]
        /\ UNCHANGED <<marnet, scan, calls, oneCaller>>

\* Lines 26-31 in the activation of caller r.
RequestMeasure ==
    \E r \in Callers :
        /\ frames[r].pc = "measure"
        /\ LET f == frames[r]
               out == measured(f.lineString, f.units)
           IN  frames' = IF out.kind = "throw"
                         THEN [frames EXCEPT ![r].result = rethrow(out),
                                             ![r].lineString = withUnits(f.lineString, f.units),
                                             ![r].pc = "returned"]
                         ELSE [frames EXCEPT ![r].result = out, ![r].lineString = out,
                                             ![r].pc = "returned"]
        /\ UNCHANGED <<marnet, scan, calls, oneCaller>>

\* Caller r has its outcome; its activation is gone.
RequestLeave ==
    \E r \in Callers :
        /\ frames[r].pc = "returned"
        /\ frames' = [frames EXCEPT ![r] = IdleFrame]
        /\ UNCHANGED <<marnet, scan, calls, oneCaller>>

NextRequests ==
    \/ RequestInvoke
    \/ RequestSnapOrigin
    \/ RequestSnapDestination
    \/ RequestFindPath
    \/ RequestReturnNull
    \/ RequestBuildLineString
    \/ RequestMeasure
    \/ RequestLeave

SpecRequests == Init /\ [][NextRequests]_vars

\* A call has returned or thrown.
Returned == pc = "returned"

----------------------------------------------------------------------------
(* Properties *)

Last(seq) == seq[Len(seq)]

\* No feature of the network is within the search radius of point p.
OutOfReach(net, p) == \A i \in 1..Len(net) : pointToLineDistance(p, net[i]) >= Radius

\* C1: whatever point is snapped, snapToNetwork returns a vertex of some
\* feature of the network: never null, never the raw point when that is
\* not a vertex, never a point inside a segment.
C1_SnapReturnsVertex ==
    /\ pc \in {"snapDestination", "findPath", "checkRoute", "measure", "returned"}
          => snappedOrigin \in Vertices(marnet)
    /\ pc \in {"findPath", "checkRoute", "measure", "returned"}
          => snappedDestination \in Vertices(marnet)

\* Both points have been snapped; the origin lies inside a segment of the
\* first feature without being a vertex, the destination is off the network.
C1_Witness ==
    /\ pc = "findPath"
    /\ origin \notin Vertices(marnet)
    /\ pointToLineDistance(origin, marnet[1]) = 0
    /\ destination \notin Vertices(marnet)
    /\ \A i \in 1..Len(marnet) : pointToLineDistance(destination, marnet[i]) > 0

\* C2: a returned Route starts at the snapped origin and ends at the
\* snapped destination.
C2_EndpointsAreSnapped ==
    (Returned /\ result.kind = "Feature") =>
        /\ result.coordinates[1] = snapToNetwork(marnet, origin, FreshScan)
        /\ Last(result.coordinates) = snapToNetwork(marnet, destination, FreshScan)

\* A Route was returned for two raw points that both differ from the
\* Route's end points.
C2_Witness ==
    /\ Returned
    /\ result.kind = "Feature"
    /\ result.coordinates[1] # origin
    /\ Last(result.coordinates) # destination

\* C3: when findPath reports no path, searoute returns null: no Error is
\* thrown, no Route is returned, and no Route is ever assembled.
C3_NoPathGivesNull ==
    /\ (Returned /\ NoRoute(route)) => result.kind = "null"
    /\ pc = "measure" => ~NoRoute(route)

\* The path finder found no path between two different snapped points and
\* the call has returned.
C3_Witness ==
    /\ Returned
    /\ NoRoute(route)
    /\ snappedOrigin # snappedDestination

\* C4 (as claimed): when no feature is within the radius of the point being
\* snapped, snapToNetwork does not return a snapped point, and the call ends
\* with an Error, not with null and not with a Route.
C4_OutOfReachFails ==
    /\ pc = "snapDestination" => ~OutOfReach(marnet, origin)
    /\ pc = "findPath" => ~OutOfReach(marnet, destination)
    /\ (Returned /\ (OutOfReach(marnet, origin) \/ OutOfReach(marnet, destination)))
          => result.kind = "throw"

\* C5 (as claimed): when both points snap to the same vertex and the path
\* finder returns the one-vertex path, searoute returns a Route of length 0.
C5_SamePointGivesZeroLength ==
    (Returned /\ snappedOrigin = snappedDestination
              /\ ~NoRoute(route) /\ Len(route.path) = 1)
        => (result.kind = "Feature" /\ result.length = 0)

\* C6 (as claimed): the length in kilometres is the length in "nm" times
\* 1.852, to within two units.
C6_KilometresAreNmTimes1852 ==
    (Returned /\ unitsArg = "kilometers" /\ result.kind = "Feature") =>
        LET nm == searoute(marnet, origin, destination, "nm")
        IN  /\ nm.kind = "Feature"
            /\ Abs(result.length - (nm.length * 1852) \div 1000) <= 2

\* C7: for "nm" the length is the length in miles times 1.15078 (rounded
\* down to the whole unit of the model), for any other unit it is the
\* length measured in that unit.
C7_LengthRule ==
    (Returned /\ result.kind = "Feature") =>
        LET inMiles == SumSegments(route.path, "miles", 1)
            extra == result.length - inMiles
        IN  IF units = "nm"
            THEN /\ 100000 * extra <= inMiles * 15078
                 /\ inMiles * 15078 < 100000 * (extra + 1)
            ELSE result.length = SumSegments(route.path, units, 1)

\* A Route of three or more vertices was measured in "nm".
C7_Witness ==
    /\ Returned
    /\ result.kind = "Feature"
    /\ unitsArg = "nm"
    /\ Len(result.coordinates) >= 3
    /\ result.length > 0

\* C8: a returned Route carries the units argument of the call, and a call
\* without units ends exactly as the same call with "nm".
C8_UnitsAttribute ==
    /\ (Returned /\ result.kind = "Feature" /\ unitsArg # "omitted")
          => result.units = unitsArg
    /\ (Returned /\ unitsArg = "omitted")
          => /\ result = searoute(marnet, origin, destination, "nm")
             /\ result.kind = "Feature" => result.units = "nm"

\* A call without units has returned a Route.
C8_Witness ==
    /\ Returned
    /\ unitsArg = "omitted"
    /\ result.kind = "Feature"

\* C9 (as claimed): snapping the snapped point again gives the same point,
\* and a point that is a vertex of the network snaps to itself.
C9_SnapIdempotent ==
    pc = "snapDestination" =>
        /\ snapToNetwork(marnet, snappedOrigin, FreshScan) = snappedOrigin
        /\ origin \in Vertices(marnet) => snappedOrigin = origin

\* C10: whatever calls came before, a call ends exactly as the same call
\* made first in a fresh process: same vertices, same length, same null,
\* same Error.
C10_Deterministic ==
    Returned => result = searoute(marnet, origin, destination, unitsArg)

\* A second or later call has returned a Route.
C10_Witness ==
    /\ Returned
    /\ calls >= 2
    /\ result.kind = "Feature"
    /\ origin # destination

\* C11: the geometry of a returned Route is the path the path finder gave,
\* vertex for vertex: same vertices, same order, same count.
C11_GeometryIsRawPath ==
    /\ pc = "measure" => lineString.coordinates = route.path
    /\ (Returned /\ result.kind = "Feature") => result.coordinates = route.path

\* A Route was returned for a path with a vertex between its two ends.
C11_Witness ==
    /\ Returned
    /\ result.kind = "Feature"
    /\ Len(route.path) >= 3
    /\ route.path[2] \notin {route.path[1], Last(route.path)}

\* C12: the length of a returned Route is never negative, and a returned
\* Route of two or more vertices has a length above 0; a length of 0 goes
\* only with a single vertex that both points snapped to.
C12_LengthSign ==
    (Returned /\ result.kind = "Feature") =>
        /\ result.length >= 0
        /\ Len(result.coordinates) >= 2 => result.length > 0
        /\ result.length = 0 =>
              (snappedOrigin = snappedDestination /\ Len(result.coordinates) = 1)

\* A two-vertex Route was measured in the unit with the smallest numbers.
C12_Witness ==
    /\ Returned
    /\ result.kind = "Feature"
    /\ Len(result.coordinates) = 2
    /\ units = "radians"
    /\ snappedOrigin # snappedDestination

\* The endpoint p written as a bare coordinate pair.
Bare(p) == IF Len(p) = 1 THEN p[1] ELSE p

\* C13: an endpoint given as a point Feature snaps to the same point as the
\* same endpoint given as a bare coordinate pair, and the call ends in the
\* same way (same Route, same null, same Error).
C13_FormsAgree ==
    /\ pc = "snapDestination" =>
          snappedOrigin = snapToNetwork(marnet, Bare(origin), FreshScan)
    /\ pc = "findPath" =>
          snappedDestination = snapToNetwork(marnet, Bare(destination), FreshScan)
    /\ Returned =>
          result = searoute(marnet, Bare(origin), Bare(destination), unitsArg)

\* A Route was returned for a point Feature and a bare pair that snap to
\* vertices with different coordinates in the two axes.
C13_Witness ==
    /\ Returned
    /\ result.kind = "Feature"
    /\ Len(origin) = 1
    /\ Len(destination) = 2
    /\ origin[1][1] # origin[1][2]
    /\ calls >= 2

\* C14 (as claimed): a call with a malformed origin or destination fails
\* before any snapping is attempted: neither endpoint is ever snapped, and
\* the call ends with an Error.
C14_RejectedBeforeSnapping ==
    (pc # "idle" /\ (Rejected(origin) \/ Rejected(destination))) =>
        /\ snappedOrigin = Null
        /\ snappedDestination = Null
        /\ Returned => result.kind = "throw"

\* C15: no step of any call, whether the call ends with a Route, with null
\* or with an Error, changes the network.
C15_NetworkUnchanged == [][marnet' = marnet]_vars

\* A second or later call has ended with an Error after an earlier call
\* scanned the network twice.
C15_Witness ==
    /\ Returned
    /\ calls >= 2
    /\ result.kind = "throw"
    /\ marnet \in Networks

\* The features within the radius of point p, and the one Phase 1 is to
\* pick: the nearest of them, the lowest index among equally near ones.
Within(net, p) == {i \in 1..Len(net) : pointToLineDistance(p, net[i]) < Radius}
Nearest(net, p) ==
    CHOOSE i \in Within(net, p) :
        \A k \in Within(net, p) :
            \/ pointToLineDistance(p, net[i]) < pointToLineDistance(p, net[k])
            \/ (pointToLineDistance(p, net[i]) = pointToLineDistance(p, net[k]) /\ i <= k)

\* C16: when some feature is within the radius of the point, Phase 1 of
\* snapToNetwork fixes the feature with the smallest distance from the
\* point, and of several features at that distance the one with the lowest
\* index; ftIndex counts from 0.
C16_PhaseOnePicksNearest ==
    /\ (pc = "snapDestination" /\ Within(marnet, origin) # {}) =>
          /\ scan.nearestLineIndex + 1 = Nearest(marnet, origin)
          /\ scan.distance = pointToLineDistance(origin, marnet[Nearest(marnet, origin)])
    /\ (pc = "findPath" /\ Within(marnet, destination) # {}) =>
          /\ scan.nearestLineIndex + 1 = Nearest(marnet, destination)
          /\ scan.distance =
                pointToLineDistance(destination, marnet[Nearest(marnet, destination)])

\* The origin was strictly nearer to the second feature than to the first;
\* the destination is equally near to both features, and within the radius.
C16_Witness ==
    /\ pc = "findPath"
    /\ pointToLineDistance(origin, marnet[2]) < pointToLineDistance(origin, marnet[1])
    /\ pointToLineDistance(destination, marnet[1]) =
          pointToLineDistance(destination, marnet[2])
    /\ Within(marnet, destination) = {1, 2}
    /\ scan.nearestLineIndex = 0

\* The vertex of feature Phase 2 is to return for point p: the nearest one,
\* the first in the feature's order among equally near ones.
NearestVertex(feature, p) ==
    feature[CHOOSE j \in 1..Len(feature) :
                \A k \in 1..Len(feature) :
                    \/ rhumbDistance(p, feature[j]) < rhumbDistance(p, feature[k])
                    \/ (rhumbDistance(p, feature[j]) = rhumbDistance(p, feature[k]) /\ j <= k)]

\* C17 (as claimed): Phase 2 of snapToNetwork returns the vertex of the
\* feature fixed by Phase 1 that is nearest to the point, whatever that
\* distance is, 0 included, and the first of several equally near vertices.
C17_PhaseTwoPicksNearestVertex ==
    /\ pc = "snapDestination" =>
          snappedOrigin = NearestVertex(marnet[scan.nearestLineIndex + 1], origin)
    /\ pc = "findPath" =>
          snappedDestination = NearestVertex(marnet[scan.nearestLineIndex + 1], destination)

\* C18: within a call the origin is snapped first, the destination second,
\* the path is searched third, with exactly the two snapped points, and the
\* LineString is built and measured last, and only for a path that was
\* found.  A let-bound variable holds a value only once its step has run.
C18_StepOrder ==
    /\ pc = "snapOrigin" =>
          (snappedOrigin = Null /\ snappedDestination = Null /\ lineString = Pending)
    /\ pc = "snapDestination" =>
          (snappedOrigin # Null /\ snappedDestination = Null /\ lineString = Pending)
    /\ pc = "findPath" =>
          (snappedOrigin # Null /\ snappedDestination # Null /\ lineString = Pending)
    /\ pc = "checkRoute" =>
          /\ route = findPath(marnet, snappedOrigin, snappedDestination)
          /\ lineString = Pending
    /\ pc = "measure" =>
          /\ route = findPath(marnet, snappedOrigin, snappedDestination)
          /\ ~NoRoute(route)
          /\ lineString.kind = "Feature"
    /\ lineString # Pending =>
          (snappedOrigin # Null /\ snappedDestination # Null /\ ~NoRoute(route))
    /\ (Returned /\ result.kind = "Feature") => lineString = result

\* In a second or later call a path between two different snapped points
\* was found and its LineString is about to be measured.
C18_Witness ==
    /\ pc = "measure"
    /\ calls >= 2
    /\ snappedOrigin # snappedDestination
    /\ origin # snappedOrigin

\* A step of the call has failed: a point was rejected, the LineString
\* could not be built, or the length could not be computed.
SnapFailed == Rejected(origin) \/ Rejected(destination)
BuildFailed == ~SnapFailed /\ ~NoRoute(route) /\ lineStringOf(route.path).kind = "throw"
LengthFailed ==
    /\ ~SnapFailed /\ ~NoRoute(route) /\ ~BuildFailed
    /\ routeLength(route.path, units).kind = "throw"

\* C19: what searoute gives back is null, an Error, or a Route with its
\* geometry, its units and its length all set; when a step has failed no
\* Route is given back.
C19_NoPartialResult ==
    Returned =>
        /\ result.kind \in {"null", "throw", "Feature"}
        /\ result.kind = "Feature" =>
              /\ DOMAIN result = {"kind", "coordinates", "units", "length"}
              /\ Len(result.coordinates) >= 2
              /\ result.units = units
              /\ result.length >= 0
        /\ (SnapFailed \/ BuildFailed \/ LengthFailed) => result.kind # "Feature"

\* The length routine failed on a LineString that was already built and
\* had its units set.
C19_Witness ==
    /\ Returned
    /\ LengthFailed
    /\ lineString.kind = "Feature"
    /\ DOMAIN lineString = {"kind", "coordinates", "units"}
    /\ Len(origin) = 1

\* C20: null is given back only when the path finder found no path between
\* the two snapped points; a failure of any step reaches the caller as the
\* very Error that step threw, never as null and never as a Route.
C20_OnlyNoPathGivesNull ==
    Returned =>
        /\ result.kind = "null" =>
              /\ snappedOrigin # Null /\ snappedDestination # Null
              /\ NoRoute(route)
              /\ ~SnapFailed
        /\ SnapFailed => result = PositionError
        /\ BuildFailed => result = lineStringOf(route.path)
        /\ LengthFailed => result = routeLength(route.path, units)

\* A call whose origin snapped well ended with the Error thrown for its
\* destination.
C20_Witness ==
    /\ Returned
    /\ snappedOrigin # Null
    /\ Rejected(destination)
    /\ result.kind = "throw"

\* C21: in whatever order the callers' requests reach the process, each
\* request ends exactly as the same request made alone in a fresh process,
\* and while one caller's call is under way no other caller's call is: a
\* call runs from its first step to its return without another call's step
\* in between.
C21_RequestsRunAlone ==
    /\ \A r \in Callers :
          frames[r].pc = "returned" =>
              frames[r].result = searoute(marnet, frames[r].origin,
                                          frames[r].destination, frames[r].unitsArg)
    /\ \A r \in Callers : \A q \in Callers \ {r} :
          frames[r].pc # "idle" => frames[q].pc = "idle"

\* Caller a's request has returned a Route of three or more vertices after
\* an earlier request was served.
C21_Witness ==
    /\ frames["a"].pc = "returned"
    /\ frames["a"].result.kind = "Feature"
    /\ Len(frames["a"].result.coordinates) >= 3
    /\ frames["b"].pc = "idle"
    /\ calls >= 2

====
